---- MODULE Spec2Model ----
(***************************************************************************)
(* Transfer-matrix thickness sweep (transfermatrix_varyThickness.py).      *)
(*                                                                         *)
(* Lengths are integers in units of half the smallest spatial step, so     *)
(* that x_step / 2.0 is a whole number of units.  Arrays keep Python's     *)
(* 0-based indices: an array is a function on 0 .. len-1.  A 2x2 complex   *)
(* matrix is kept as the ordered sequence of the I_mat / L_mat factors     *)
(* whose product it is; a factor records the arguments it was built from   *)
(* and whether its entries are finite.                                     *)
(***************************************************************************)
EXTENDS Integers, Sequences, FiniteSets, TLC

\* ---------------------------------------------------------------- bounds
MaxLayers == 3
MaxThick == 3
MaxFinish == 4

\* ------------------------------------------------------- array helpers
len(a) == Cardinality(DOMAIN a)

EmptyArr == [i \in {} |-> 0]

\* ceil(a / b) for a >= 0, b > 0
CeilDiv(a, b) == (a + b - 1) \div b

\* number of elements numpy.arange(start, stop, step) returns; step # 0
ArangeLen(start, stop, step) ==
  IF step > 0
    THEN (IF stop > start THEN CeilDiv(stop - start, step) ELSE 0)
    ELSE (IF stop < start THEN CeilDiv(start - stop, 0 - step) ELSE 0)

\* numpy.arange(start, stop, step): start + i*step for i < length
Arange(start, stop, step) ==
  [i \in 0 .. ArangeLen(start, stop, step) - 1 |-> start + i * step]

RECURSIVE SumTo(_, _)
SumTo(a, k) == IF k < 0 THEN 0 ELSE a[k] + SumTo(a, k - 1)

\* numpy.cumsum(t)
cumsum(a) == [i \in DOMAIN a |-> SumTo(a, i)]

\* sum(t)
sum(a) == SumTo(a, len(a) - 1)

\* ------------------------------------------------------- configuration
\* layers (line 57), 0-based; the first k names of the source's stack
LayerNames == <<"SiO2", "ITO", "PEDOT", "P3HTPCBM_BHJ", "Ca", "Al">>

FirstLayers(k) == [i \in 0 .. k - 1 |-> LayerNames[i + 1]]

\* x_step = 5.0 nm (line 73) is two length units
x_step_default == 2

\* tabulated wavelength range of the nk_*.csv / AM15G.csv tables
TabMin == 1
TabMax == 4

\* tabulated refractive index of a material at wavelength l (real part only;
\* "NIM" is a material whose index is the negative of ITO's)
NK(matName, l) ==
  CASE matName = "SiO2" -> 2
    [] matName = "ITO" -> 3
    [] matName = "PEDOT" -> 3 + l
    [] matName = "P3HTPCBM_BHJ" -> 6
    [] matName = "Ca" -> 7
    [] matName = "Al" -> 8
    [] OTHER -> 0 - 3

\* interp1d raises ValueError for a wavelength outside the tabulated range
InTable(lams) == \A i \in DOMAIN lams : TabMin <= lams[i] /\ lams[i] <= TabMax

get_ntotal(matName, lams) == [i \in DOMAIN lams |-> NK(matName, lams[i])]

\* the configuration block, lines 57-73, for a stack of k layers
BaseConfig(k) ==
  [layers |-> FirstLayers(k),
   thicknesses |-> [i \in 0 .. k - 1 |-> IF i = 0 THEN 0 ELSE 2],
   activeLayer |-> k - 1,
   layerVaried |-> 1,
   varyStart |-> 0, varyFinish |-> 2, varyStep |-> 1,
   lambda_start |-> 1, lambda_stop |-> 2, lambda_step |-> 1,
   x_step |-> x_step_default]

\* numbers of layers: of the stacks whose geometry is varied, and of the rest
LayerCounts == 2 .. MaxLayers

StackCounts == 2 .. MaxLayers + 1

\* spatial steps: x_step and its double
XSteps == {x_step_default, 2 * x_step_default}

Sweeps ==
  {s \in (0 .. 1) \X (0 .. MaxFinish) \X (1 .. 2) : s[1] <= s[2]}

\* ------------------------------------------------------ matrix builders
\* I_mat(n1, n2), lines 116-122: r and t divide by n1 + n2; numpy complex
\* division by zero yields inf/nan entries and raises nothing (ret / t with
\* t = 0 likewise)
I_mat(n1, n2) ==
  [kind |-> "I", n1 |-> n1, n2 |-> n2, d |-> 0, l |-> 0, finite |-> n1 + n2 # 0 /\ n1 # 0]

\* L_mat(n, d, l), lines 125-132
L_mat(nn, d, l) ==
  [kind |-> "L", n1 |-> nn, n2 |-> nn, d |-> d, l |-> l, finite |-> l # 0]

\* np.mat(A) * np.mat(mX) * np.mat(mY)
Mul3(A, mX, mY) == A \o <<mX, mY>>

Finite(M) == \A k \in 1 .. Len(M) : M[k].finite

\* ---------------------------------------------------------------- state
VARIABLES
  cfg,            \* the configuration scalars and layer names, lines 57-73
  thicknesses,    \* the list `thicknesses`, which `t` aliases (line 158)
  pc,             \* position of the script
  err,            \* the exception that ended the run, or "none"
  lambdas, varyThickness, n, R_glass,
  Jsc, thickInd,
  t_cumsum, x_pos, x_mat, R, T, E,
  ind, material, S, S_prime, S_dprime

vars ==
  <<cfg, thicknesses, pc, err, lambdas, varyThickness, n, R_glass, Jsc,
    thickInd, t_cumsum, x_pos, x_mat, R, T, E, ind, material, S, S_prime,
    S_dprime>>

\* t = thicknesses (line 158): the same list object
t == thicknesses

\* an entry of a freshly zeroed array
Zero == [kind |-> "zero"]

ZeroField == [kind |-> "zero", material |-> 0 - 1, x |-> 0, dj |-> 0]

\* the scalars and names of a configuration (everything but the mutable list)
Scalars(c) ==
  [layers |-> c.layers, activeLayer |-> c.activeLayer,
   layerVaried |-> c.layerVaried,
   varyStart |-> c.varyStart, varyFinish |-> c.varyFinish, varyStep |-> c.varyStep,
   lambda_start |-> c.lambda_start, lambda_stop |-> c.lambda_stop,
   lambda_step |-> c.lambda_step, x_step |-> c.x_step]

\* the run starts from configuration c
Start(c) == cfg = Scalars(c) /\ thicknesses = c.thicknesses

\* valid configurations of k layers: every stack geometry, varied layer
\* and sweep
StartGeometry(k) ==
  \E th \in [0 .. k - 1 -> 0 .. MaxThick], lv \in 0 .. k - 1, s \in Sweeps,
     xs \in XSteps :
    Start([BaseConfig(k) EXCEPT !.thicknesses = th, !.layerVaried = lv,
                                !.x_step = xs,
                                !.varyStart = s[1], !.varyFinish = s[2],
                                !.varyStep = s[3]])

\* every choice of active layer, the first out-of-range index included
StartActive(k) ==
  \E a \in 0 .. k : Start([BaseConfig(k) EXCEPT !.activeLayer = a])

\* one layer replaced by the material "NIM"
StartMaterial(k) ==
  \E j \in 0 .. k - 1 :
    Start([BaseConfig(k) EXCEPT
             !.layers = [BaseConfig(k).layers EXCEPT ![j] = "NIM"]])

\* configurations with one malformed field
StartInvalid(k) ==
  \/ Start([BaseConfig(k) EXCEPT !.layerVaried = k])
  \/ \E st \in {0 - 1, 0} : Start([BaseConfig(k) EXCEPT !.varyStep = st])
  \/ Start([BaseConfig(k) EXCEPT !.varyStart = 3, !.varyFinish = 1])
  \/ \E xs \in {0 - 2, 0} : Start([BaseConfig(k) EXCEPT !.x_step = xs])
  \/ \E st \in {0 - 1, 0} : Start([BaseConfig(k) EXCEPT !.lambda_step = st])
  \/ Start([BaseConfig(k) EXCEPT !.lambda_start = 0])
  \/ Start([BaseConfig(k) EXCEPT !.lambda_start = 3, !.lambda_stop = 1])

\* substrate / 100 nm absorber, one wavelength, x_step 5 nm (2 units)
ScenarioConfig ==
  [BaseConfig(2) EXCEPT !.thicknesses = [i \in 0 .. 1 |-> IF i = 0 THEN 0 ELSE 40],
                        !.varyStart = 40, !.varyFinish = 40,
                        !.lambda_stop = 1]

Init ==
  /\ \/ \E k \in LayerCounts : StartGeometry(k)
     \/ \E k \in StackCounts :
          StartActive(k) \/ StartMaterial(k) \/ StartInvalid(k)
     \/ Start(ScenarioConfig)
  /\ pc = "start"
  /\ err = "none"
  /\ lambdas = EmptyArr /\ varyThickness = EmptyArr
  /\ n = EmptyArr /\ R_glass = EmptyArr
  /\ Jsc = EmptyArr /\ thickInd = 0
  /\ t_cumsum = EmptyArr /\ x_pos = EmptyArr /\ x_mat = EmptyArr
  /\ R = EmptyArr /\ T = EmptyArr /\ E = EmptyArr
  /\ ind = 0 /\ material = 0
  /\ S = <<>> /\ S_prime = <<>> /\ S_dprime = <<>>

\* an exception ends the script
Raise(e) == pc' = "error" /\ err' = e

\* ------------------------------------------------- lines 88-160: set-up
\* R_glass = abs((1 - n[0, :]) / (1 + n[0, :])) ** 2, line 156
R_glass_of(n0) == [i \in DOMAIN n0 |-> [kind |-> "R_glass", n0 |-> n0[i]]]

Setup ==
  /\ pc = "start"
  /\ IF cfg.lambda_step = 0 \/ cfg.varyStep = 0
       THEN /\ Raise("ZeroDivisionError")
            /\ UNCHANGED <<thicknesses, lambdas, varyThickness, n, R_glass, Jsc>>
       ELSE LET lams == Arange(cfg.lambda_start, cfg.lambda_stop + cfg.lambda_step,
                               cfg.lambda_step)
                vary == Arange(cfg.varyStart, cfg.varyFinish + cfg.varyStep,
                               cfg.varyStep)
            IN /\ lambdas' = lams
               /\ varyThickness' = vary
               /\ IF ~InTable(lams)
                    THEN /\ Raise("ValueError")
                         /\ UNCHANGED <<thicknesses, n, R_glass, Jsc>>
                    ELSE /\ n' = [i \in DOMAIN cfg.layers |->
                                    get_ntotal(cfg.layers[i], lams)]
                         /\ R_glass' = R_glass_of(n'[0])
                         /\ thicknesses' = [thicknesses EXCEPT ![0] = 0]
                         /\ Jsc' = [i \in DOMAIN vary |-> Zero]
                         /\ pc' = "sweep"
                         /\ err' = err
  /\ UNCHANGED <<cfg, thickInd, t_cumsum, x_pos, x_mat, R, T, E, ind, material,
                 S, S_prime, S_dprime>>

\* ------------------------------- lines 162-176: start of one sweep step
\* mutant of x_mat_of: comp1 >= comp2
x_mat_of_ge(xs, cs) ==
  [xi \in DOMAIN xs |-> Cardinality({j \in DOMAIN cs : xs[xi] >= cs[j]})]

\* x_mat = sum(comp1 > comp2, 0), lines 168-172: for each position, the
\* number of cumulative sums it strictly exceeds
x_mat_of(xs, cs) ==
  [xi \in DOMAIN xs |-> Cardinality({j \in DOMAIN cs : xs[xi] > cs[j]})]

\* mutant of x_pos_of: the half-step offset is dropped
x_pos_of_nohalf(tt) == Arange(0, sum(tt), cfg.x_step)

\* x_pos = np.arange((x_step / 2.0), sum(t), x_step), line 166
x_pos_of(tt) == Arange(cfg.x_step \div 2, sum(tt), cfg.x_step)

\* mutant of SetVaried: the index is taken as 1-based
SetVaried_onebased(tt, lv, v) == [tt EXCEPT ![IF lv > 0 THEN lv - 1 ELSE lv] = v]

\* t[layerVaried] = varyThickness[thickInd], line 163
SetVaried(tt, lv, v) == [tt EXCEPT ![lv] = v]

SweepStep ==
  /\ pc = "sweep"
  /\ thickInd < len(varyThickness)
  /\ IF cfg.layerVaried \notin DOMAIN thicknesses
       THEN /\ Raise("IndexError")
            /\ UNCHANGED <<thicknesses, t_cumsum, x_pos, x_mat, R, T, E, ind>>
       ELSE LET tt == SetVaried(thicknesses, cfg.layerVaried, varyThickness[thickInd])
            IN /\ thicknesses' = tt
               /\ t_cumsum' = cumsum(tt)
               /\ IF cfg.x_step = 0
                    THEN /\ Raise("ValueError")
                         /\ UNCHANGED <<x_pos, x_mat, R, T, E, ind>>
                    ELSE /\ x_pos' = x_pos_of(tt)
                         /\ x_mat' = x_mat_of(x_pos', t_cumsum')
                         /\ R' = [i \in DOMAIN lambdas |-> Zero]
                         /\ T' = [i \in DOMAIN lambdas |-> Zero]
                         /\ E' = [xi \in DOMAIN x_pos' |->
                                    [i \in DOMAIN lambdas |-> ZeroField]]
                         /\ ind' = 0
                         /\ pc' = "wave"
                         /\ err' = err
  /\ UNCHANGED <<cfg, lambdas, varyThickness, n, R_glass, Jsc, thickInd,
                 material, S, S_prime, S_dprime>>

\* ---------------------------------- lines 178-186: S, R, T at lambdas[i]
\* the loop of lines 181-184, from matind up to (not including) stop
RECURSIVE S_loop(_, _, _, _, _)
S_loop(A, matind, stop, tt, i) ==
  IF matind >= stop THEN A
  ELSE S_loop(Mul3(A, L_mat(n[matind][i], tt[matind], lambdas[i]),
                      I_mat(n[matind][i], n[matind + 1][i])),
              matind + 1, stop, tt, i)

\* mutant of S_of: the propagation matrix of the last layer is chained too
S_of_withlast(tt, i) ==
  S_loop(<<I_mat(n[0][i], n[1][i])>>, 1, len(tt) - 1, tt, i)
    \o <<L_mat(n[len(tt) - 1][i], tt[len(tt) - 1], lambdas[i])>>

\* S after lines 180-184, for the stack tt
S_of(tt, i) == S_loop(<<I_mat(n[0][i], n[1][i])>>, 1, len(tt) - 1, tt, i)

\* R[ind] = abs(S[1, 0] / S[0, 0]) ** 2, line 185
R_of(A) == [kind |-> "R", S |-> A]

\* T[ind] = abs(2 / (1 + n[0, ind])) / sqrt(1 - R_glass[ind] * R[ind]), line 186
T_of(n0, rg, r) == [kind |-> "T", n0 |-> n0, R_glass |-> rg, R |-> r]

\* mutant of FieldFirst: the loop starts at layer 0
FieldFirst_zero == 1 - 1

\* for material in np.arange(1, len(t)), line 189: first value and stop
FieldFirst == 1

FieldStop == len(t)

Wavelength ==
  /\ pc = "wave"
  /\ ind < len(lambdas)
  /\ S' = S_of(t, ind)
  /\ R' = [R EXCEPT ![ind] = R_of(S')]
  /\ T' = [T EXCEPT ![ind] = T_of(n[0][ind], R_glass[ind], R'[ind])]
  /\ material' = FieldFirst
  /\ pc' = "field"
  /\ UNCHANGED <<cfg, thicknesses, err, lambdas, varyThickness, n, R_glass, Jsc,
                 thickInd, t_cumsum, x_pos, x_mat, E, ind, S_prime, S_dprime>>

\* ------------------------- lines 189-214: the field in one layer
\* a[i] with Python's wrap-around of a negative index
PyIndex(a, i) == a[IF i < 0 THEN i + len(a) ELSE i]

\* the loop of lines 196-199
RECURSIVE S_prime_loop(_, _, _, _)
S_prime_loop(A, matind, stop, i) ==
  IF matind >= stop THEN A
  ELSE S_prime_loop(Mul3(A, L_mat(n[matind - 1][i], t[matind - 1], lambdas[i]),
                            I_mat(n[matind - 1][i], n[matind][i])),
                    matind + 1, stop, i)

\* mutant of S_prime_of: the loop stops one layer early
S_prime_of_short(m, i) == S_prime_loop(<<I_mat(n[0][i], n[1][i])>>, 2, m, i)

\* S_prime after lines 195-199
S_prime_of(m, i) == S_prime_loop(<<I_mat(n[0][i], n[1][i])>>, 2, m + 1, i)

\* the loop of lines 202-205
RECURSIVE S_dprime_loop(_, _, _, _)
S_dprime_loop(A, matind, stop, i) ==
  IF matind >= stop THEN A
  ELSE S_dprime_loop(Mul3(A, I_mat(n[matind][i], n[matind + 1][i]),
                             L_mat(n[matind + 1][i], t[matind + 1], lambdas[i])),
                     matind + 1, stop, i)

\* S_dprime after lines 201-205 (np.eye(2) is the empty product)
S_dprime_of(m, i) == S_dprime_loop(<<>>, m, len(t) - 1, i)

\* x_indices = np.nonzero(x_mat == material), line 192
x_indices_of(m) == {xi \in DOMAIN x_pos : x_mat[xi] = m}

\* num / den at one position, lines 193 and 207-214
FieldValue(m, xi) ==
  [kind |-> "field", material |-> m,
   x |-> x_pos[xi] - PyIndex(t_cumsum, m - 1), dj |-> t[m]]

Field ==
  /\ pc = "field"
  /\ material < FieldStop
  /\ S_prime' = S_prime_of(material, ind)
  /\ S_dprime' = S_dprime_of(material, ind)
  /\ E' = [xi \in DOMAIN E |->
             IF xi \in x_indices_of(material)
               THEN [E[xi] EXCEPT ![ind] = FieldValue(material, xi)]
               ELSE E[xi]]
  /\ material' = material + 1
  /\ IF material + 1 < FieldStop
       THEN pc' = "field" /\ ind' = ind
       ELSE pc' = "wave" /\ ind' = ind + 1
  /\ UNCHANGED <<cfg, thicknesses, err, lambdas, varyThickness, n, R_glass, Jsc,
                 thickInd, t_cumsum, x_pos, x_mat, R, T, S>>

\* ------------------------------ lines 215-231: absorption and Jsc
\* ActivePos = np.nonzero(x_mat == activeLayer), line 220
ActivePos == {xi \in DOMAIN x_pos : x_mat[xi] = cfg.activeLayer}

\* the scalar of line 231: a function of the step's stack and of the field
\* at the active layer's positions
JscValue ==
  [kind |-> "Jsc", t |-> t, E |-> [xi \in ActivePos |-> E[xi]]]

\* mutant of JscIndex: the entry before the current one
JscIndex_prev == IF thickInd > 0 THEN thickInd - 1 ELSE 0

\* where Jsc is written, line 231
JscIndex == thickInd

Integrate ==
  /\ pc = "wave"
  /\ ind >= len(lambdas)
  /\ IF cfg.activeLayer \notin DOMAIN t \/ len(lambdas) = 0
       THEN Raise("IndexError") /\ UNCHANGED <<Jsc, thickInd>>
       ELSE /\ Jsc' = [Jsc EXCEPT ![JscIndex] = JscValue]
            /\ thickInd' = thickInd + 1
            /\ pc' = "sweep"
            /\ err' = err
  /\ UNCHANGED <<cfg, thicknesses, lambdas, varyThickness, n, R_glass, t_cumsum,
                 x_pos, x_mat, R, T, E, ind, material, S, S_prime, S_dprime>>

\* ------------------------------ lines 233-246: after the sweep
Plot ==
  /\ pc = "sweep"
  /\ thickInd >= len(varyThickness)
  /\ IF len(Jsc) = 0
       THEN Raise("IndexError")
       ELSE pc' = "done" /\ err' = err
  /\ UNCHANGED <<cfg, thicknesses, lambdas, varyThickness, n, R_glass, Jsc,
                 thickInd, t_cumsum, x_pos, x_mat, R, T, E, ind, material, S,
                 S_prime, S_dprime>>

Next == Setup \/ SweepStep \/ Wavelength \/ Field \/ Integrate \/ Plot

Spec == Init /\ [][Next]_vars

\* ================================================================ claims
last == len(t) - 1

\* the sweep has been set up (varyThickness is computed)
SweepReady == pc \in {"sweep", "wave", "field", "done"}

\* inside a sweep step: t, t_cumsum, x_pos and x_mat belong to step thickInd
InStep == pc \in {"wave", "field"}

\* C1: for varyStep > 0 and varyStart <= varyFinish the sweep has exactly
\* floor((varyFinish - varyStart) / varyStep) + 1 values, the first is
\* varyStart and none exceeds varyFinish.
C1_SweepLength ==
  (SweepReady /\ cfg.varyStep > 0 /\ cfg.varyStart <= cfg.varyFinish)
    => /\ len(varyThickness)
            = ((cfg.varyFinish - cfg.varyStart) \div cfg.varyStep) + 1
       /\ varyThickness[0] = cfg.varyStart
       /\ \A i \in DOMAIN varyThickness : varyThickness[i] <= cfg.varyFinish

\* lower boundary of layer m (0 for the first layer)
LowerBound(m) == IF m = 0 THEN 0 ELSE t_cumsum[m - 1]

\* C2: every sample position is mapped to exactly one layer index, the one
\* whose cumulative-thickness interval contains it; a position exactly on a
\* boundary stays in the layer that ends there (a cumulative sum counts only
\* once the position strictly exceeds it).
C2_PositionInOneLayer ==
  \A xi \in DOMAIN x_pos :
    /\ x_mat[xi] \in DOMAIN t
    /\ \A m \in DOMAIN t :
         (LowerBound(m) < x_pos[xi] /\ x_pos[xi] <= t_cumsum[m]) <=> m = x_mat[xi]
    /\ \A j \in DOMAIN t :
         x_pos[xi] = t_cumsum[j] => (x_mat[xi] <= j /\ t_cumsum[x_mat[xi]] = x_pos[xi])

\* a position lies exactly on the boundary between two layers of positive
\* thickness and is mapped to the lower one
C2_Witness ==
  /\ InStep
  /\ \E xi \in DOMAIN x_pos : \E j \in DOMAIN t :
       /\ j < last /\ t[j] > 0 /\ t[j + 1] > 0
       /\ x_pos[xi] = t_cumsum[j]
       /\ x_mat[xi] = j

\* C3: the result sequence has one entry per sweep thickness, in sweep
\* order: entry i is the value computed from the stack whose varied layer had
\* the i-th sweep value; entries of steps not yet run are still zero, and a
\* later step never changes an earlier entry.
C3_ResultsInSweepOrder ==
  SweepReady =>
    /\ DOMAIN Jsc = DOMAIN varyThickness
    /\ \A i \in DOMAIN Jsc :
         IF i < thickInd
           THEN /\ Jsc[i].kind = "Jsc"
                /\ Jsc[i].t = SetVaried(t, cfg.layerVaried, varyThickness[i])
           ELSE Jsc[i] = Zero
    /\ (pc = "done" => thickInd = len(varyThickness))

C3_Witness == pc = "done" /\ len(Jsc) >= 3 /\ Jsc[0] # Jsc[2]

\* number of sample positions mapped to layer m
PositionsIn(m) == Cardinality({xi \in DOMAIN x_pos : x_mat[xi] = m})

\* number of field entries of layer m at wavelength index i
FieldEntries(m, i) ==
  Cardinality({xi \in DOMAIN E : E[xi][i].kind = "field" /\ E[xi][i].material = m})

AllMultiples == cfg.x_step > 0 /\ \A m \in DOMAIN t : t[m] % cfg.x_step = 0

\* C4: when every layer thickness is a whole multiple of x_step, a layer of
\* thickness d holds d / x_step sample positions, and once the field loop of
\* a wavelength has run, d / x_step field entries (layers 1 .. last); the
\* 100 nm absorber at x_step 5 nm (40 and 2 units) holds 20.
C4_PositionsPerLayer ==
  (InStep /\ AllMultiples) =>
    /\ \A m \in DOMAIN t : PositionsIn(m) = t[m] \div cfg.x_step
    /\ \A i \in DOMAIN lambdas : \A m \in 1 .. last :
         i < ind => FieldEntries(m, i) = t[m] \div cfg.x_step
    /\ (len(t) = 2 /\ t[1] = 40 /\ cfg.x_step = 2 /\ ind >= 1)
         => FieldEntries(1, 0) = 20

C4_Witness ==
  /\ InStep /\ AllMultiples /\ ind >= 1
  /\ len(t) = 2 /\ t[1] = 40 /\ cfg.x_step = 2
  /\ FieldEntries(1, 0) = 20

\* the configuration is invalid
InvalidConfig ==
  \/ cfg.activeLayer \notin 0 .. len(cfg.layers) - 1
  \/ cfg.layerVaried \notin 0 .. len(cfg.layers) - 1
  \/ cfg.lambda_start <= 0 \/ cfg.lambda_step <= 0 \/ cfg.lambda_start > cfg.lambda_stop
  \/ cfg.varyStep <= 0 \/ cfg.varyStart > cfg.varyFinish
  \/ cfg.x_step <= 0

\* C5: an invalid configuration ends the run in a ConfigurationError before
\* any matrix computation or sweep step.
C5_ConfigurationError ==
  InvalidConfig =>
    /\ pc \in {"start", "error"}
    /\ (pc = "error" => err = "ConfigurationError")
    /\ S = <<>> /\ t_cumsum = EmptyArr

\* a matrix holds a factor I_mat(n1, n2) with n1 + n2 = 0
Degenerate(M) ==
  \E k \in 1 .. Len(M) : M[k].kind = "I" /\ M[k].n1 + M[k].n2 = 0

\* C6: I_mat called with n1 + n2 = 0 fails with InvalidOpticalConstant
\* instead of returning a matrix with inf or nan entries.
C6_DegenerateInterfaceFails ==
  (Degenerate(S) \/ Degenerate(S_prime) \/ Degenerate(S_dprime))
    => (pc = "error" /\ err = "InvalidOpticalConstant" /\ Finite(S))

\* C7 (as amended): a field value is assigned only to positions mapped to
\* layers 1 .. last, by the iteration of that layer; positions mapped to
\* layer 0 are never assigned one.
C7_FieldOnlyInLayers ==
  \A xi \in DOMAIN E : \A i \in DOMAIN E[xi] :
    /\ E[xi][i].kind = "field"
         => (1 <= x_mat[xi] /\ x_mat[xi] <= last /\ E[xi][i].material = x_mat[xi])
    /\ x_mat[xi] = 0 => E[xi][i] = ZeroField

\* the field loop of a wavelength has run over a stack with positions in
\* layer 0 (left without a field) and in the last layer (given one)
C7_Witness ==
  /\ InStep /\ ind >= 1
  /\ \E xi \in DOMAIN E : x_mat[xi] = 0 /\ E[xi][0] = ZeroField
  /\ \E xi \in DOMAIN E : x_mat[xi] = last /\ E[xi][0].kind = "field"

\* C7 (as stated): no field value is assigned to positions of the last layer.
C7_Original ==
  \A xi \in DOMAIN E : \A i \in DOMAIN E[xi] :
    E[xi][i].kind = "field" => (1 <= x_mat[xi] /\ x_mat[xi] < last)

\* T(lambdas[i]) as the first sweep step computes it
T_first(i) ==
  T_of(n[0][i], R_glass[i],
       R_of(S_of(SetVaried(t, cfg.layerVaried, varyThickness[0]), i)))

\* C8 (as amended): R_glass is fixed per wavelength by the substrate index
\* alone; T is recomputed in every sweep step from R_glass and the step's
\* reflectance R of the current stack, and keeps the value of the first sweep
\* step when the varied layer is the first or the last layer.
C8_TransmittancePerStep ==
  InStep =>
    \A i \in DOMAIN T :
      T[i].kind = "T" =>
        /\ R_glass[i] = [kind |-> "R_glass", n0 |-> n[0][i]]
        /\ T[i] = T_of(n[0][i], R_glass[i], R_of(S_of(t, i)))
        /\ (cfg.layerVaried \in {0, last} => T[i] = T_first(i))

\* a later sweep step of a stack whose last layer is varied has computed T
C8_Witness ==
  /\ InStep /\ thickInd >= 1 /\ len(t) >= 3
  /\ cfg.layerVaried = last
  /\ t[last] # varyThickness[0]
  /\ T[0].kind = "T"

\* C8 (as stated): T has the same value in every sweep step.
C8_Original ==
  InStep => \A i \in DOMAIN T : T[i].kind = "T" => T[i] = T_first(i)

\* C9 (as stated): in every sweep step t[layerVaried] is the current sweep
\* value and t[0] is 0; no step changes any other entry.
C9_Original ==
  /\ [](InStep => (t[cfg.layerVaried] = varyThickness[thickInd] /\ t[0] = 0))
  /\ [][\A i \in DOMAIN thicknesses :
          (i # 0 /\ i # cfg.layerVaried) => thicknesses'[i] = thicknesses[i]]_vars

\* C9 (as amended): in every sweep step t[layerVaried] is the current sweep
\* value and t[0] is 0 unless layer 0 is the varied one; no step changes any
\* other entry.
C9_OnlyVariedLayerChanges ==
  /\ [](InStep => /\ t[cfg.layerVaried] = varyThickness[thickInd]
                  /\ (cfg.layerVaried # 0 => t[0] = 0))
  /\ [][\A i \in DOMAIN thicknesses :
          (i # 0 /\ i # cfg.layerVaried) => thicknesses'[i] = thicknesses[i]]_vars

\* a later step of a sweep of layer 0, with a nonzero sweep value
C9_Witness ==
  /\ InStep /\ thickInd >= 1 /\ len(t) >= 3
  /\ cfg.layerVaried = 0 /\ t[0] = varyThickness[thickInd] /\ t[0] > 0
  /\ t[1] > 0 /\ t[1] # t[2]

\* the factors the statement lists, at wavelength index i:
\* I(0,1), then L(k), I(k,k+1) for k = 1 .. m-1
ExpectedPrefix(m, i) ==
  [j \in 1 .. 2 * m - 1 |->
     IF j % 2 = 1
       THEN I_mat(n[(j - 1) \div 2][i], n[(j + 1) \div 2][i])
       ELSE L_mat(n[j \div 2][i], t[j \div 2], lambdas[i])]

\* I(k,k+1), L(k+1) for k = m .. last-1
ExpectedSuffix(m, i) ==
  [j \in 1 .. 2 * (last - m) |->
     IF j % 2 = 1
       THEN I_mat(n[m + (j - 1) \div 2][i], n[m + (j + 1) \div 2][i])
       ELSE L_mat(n[m + j \div 2][i], t[m + j \div 2], lambdas[i])]

IsPrefix(A, B) == Len(A) <= Len(B) /\ SubSeq(B, 1, Len(A)) = A

\* the layer and wavelength index of the latest field iteration
FieldDone == (pc = "field" /\ material >= 2) \/ (pc = "wave" /\ ind >= 1)

LayerDone == material - 1

IndexDone == IF pc = "field" THEN ind ELSE ind - 1

\* C10: for every wavelength and layer m of the field loop, S'(m) is
\* I(0,1), L(k), I(k,k+1) (k = 1 .. m-1), a prefix of S, with S'(last) = S;
\* S''(m) is I(k,k+1), L(k+1) (k = m .. last-1); and S'(m), L(m), S''(m)
\* together are S followed by L(last).
C10_PartialProducts ==
  FieldDone =>
    LET m == LayerDone
        i == IndexDone
        Lm == L_mat(n[m][i], t[m], lambdas[i])
        Llast == L_mat(n[last][i], t[last], lambdas[i])
    IN /\ S = ExpectedPrefix(last, i)
       /\ S_prime = ExpectedPrefix(m, i)
       /\ S_dprime = ExpectedSuffix(m, i)
       /\ IsPrefix(S_prime, S)
       /\ (m = last => S_prime = S)
       /\ S_prime \o <<Lm>> \o S_dprime = S \o <<Llast>>

\* an interior layer of a stack of at least four layers
C10_Witness ==
  /\ FieldDone /\ len(t) >= 4
  /\ LayerDone = 2
  /\ Len(S_prime) = 3 /\ Len(S_dprime) >= 2 /\ Len(S) > Len(S_prime)

====
